---- MODULE Spec2Model ----
(***************************************************************************)
(* Model of hooks/validate-bash/run.py: the bash command validation hook.  *)
(*                                                                         *)
(* Text is modelled at character level: a Python str is a sequence of      *)
(* one-character strings, so that splitting, joining, prefix and substring *)
(* tests are computed as the code computes them.  Reason texts are TLA+    *)
(* strings built with \o from the literals of the source.                  *)
(***************************************************************************)
EXTENDS Integers, Sequences, FiniteSets, TLC

VARIABLES
    BASHLEX_AVAILABLE,  \* run.py:13-17, the import guard
    APPROVED_PATTERNS,  \* run.py:37, loaded once at start
    command,            \* the input of check_command, as the parser sees it
    pc,                 \* position inside check_command
    visitor,            \* the BashASTVisitor of this call
    idx,                \* index of the per-command loop (run.py:397)
    result,             \* (decision, reason) returned by check_command
    m_name, m_args, m_pattern,  \* the arguments of one call of matches_pattern
    m_pc,               \* "call", then "returned" or "raised"
    m_result            \* the value returned

vars == <<BASHLEX_AVAILABLE, APPROVED_PATTERNS, command, pc, visitor, idx,
          result, m_name, m_args, m_pattern, m_pc, m_result>>

checkVars == <<BASHLEX_AVAILABLE, APPROVED_PATTERNS, command, pc, visitor,
               idx, result>>
matchVars == <<m_name, m_args, m_pattern, m_pc, m_result>>

None == "None"

-----------------------------------------------------------------------------
(* Python str operations, on sequences of characters.                      *)

IsSpace(c) == c \in {" ", "\t", "\n"}

\* sub in text
Contains(text, sub) ==
    \E i \in 0..(Len(text) - Len(sub)) :
        \A j \in 1..Len(sub) : text[i + j] = sub[j]

\* s.startswith(p)
StartsWith(s, p) ==
    /\ Len(p) <= Len(s)
    /\ \A j \in 1..Len(p) : s[j] = p[j]

\* sep.join(words)
RECURSIVE Join(_, _)
Join(sep, words) ==
    IF words = <<>> THEN <<>>
    ELSE IF Len(words) = 1 THEN words[1]
    ELSE words[1] \o sep \o Join(sep, Tail(words))

\* s.split(): the maximal runs of non-whitespace characters, in order
RECURSIVE SplitWs(_, _, _)
SplitWs(s, cur, acc) ==
    IF s = <<>> THEN (IF cur = <<>> THEN acc ELSE Append(acc, cur))
    ELSE IF IsSpace(Head(s))
         THEN SplitWs(Tail(s), <<>>, IF cur = <<>> THEN acc ELSE Append(acc, cur))
         ELSE SplitWs(Tail(s), Append(cur, Head(s)), acc)

split(s) == SplitWs(s, <<>>, <<>>)

\* index of the first c in s, 0 when there is none
FirstIndex(s, c) ==
    IF \E i \in 1..Len(s) : s[i] = c
    THEN CHOOSE i \in 1..Len(s) : s[i] = c /\ \A j \in 1..(i - 1) : s[j] # c
    ELSE 0

\* the characters of a sequence as one TLA+ string (for reason texts)
RECURSIVE Str(_)
Str(s) == IF s = <<>> THEN "" ELSE Head(s) \o Str(Tail(s))

-----------------------------------------------------------------------------
(* send_permission_response, run.py:50-65: the response that is printed.   *)

\* the response with the reason whatever the decision
send_permission_response_with_reason(decision, reason, cmd) ==
    [hookSpecificOutput |->
        [hookEventName |-> "PreToolUse",
         permissionDecision |-> decision,
         permissionDecisionReason |-> reason]]

send_permission_response(decision, reason, cmd) ==
    [hookSpecificOutput |->
        IF decision # "allow"
        THEN [hookEventName |-> "PreToolUse",
              permissionDecision |-> decision,
              permissionDecisionReason |-> reason]
        ELSE [hookEventName |-> "PreToolUse",
              permissionDecision |-> decision]]

-----------------------------------------------------------------------------
(* validate_text_for_dangerous_patterns, run.py:74-95.                     *)
(* Returns the violation text, or None when the text is safe.              *)

\* the pattern anchored at the start of the text only: r'^/'
HasLeadingSlash(text) == text # <<>> /\ text[1] = "/"

\* re.search(r'(^|\s)/', text)
HasAbsolutePathMarker(text) ==
    \E i \in 1..Len(text) :
        /\ text[i] = "/"
        /\ (i = 1 \/ IsSpace(text[i - 1]))

validate_text_for_dangerous_patterns(text, context_name) ==
    IF HasAbsolutePathMarker(text)
        THEN context_name \o " uses absolute path"
    ELSE IF Contains(text, <<".", ".">>)
        THEN context_name \o " accesses parent directory"
    ELSE IF Contains(text, <<"~">>)
        THEN context_name \o " uses tilde expansion"
    ELSE IF Contains(text, <<".", "g", "i", "t">>)
        THEN context_name \o " accesses .git files"
    ELSE None

-----------------------------------------------------------------------------
(* matches_pattern, run.py:98-142.                                         *)

\* run.py:109-113
pattern_cmd_part(pattern) ==
    IF FirstIndex(pattern, ":") > 0
    THEN SubSeq(pattern, 1, FirstIndex(pattern, ":") - 1)
    ELSE pattern

pattern_args_wildcard(pattern) ==
    IF FirstIndex(pattern, ":") > 0
    THEN SubSeq(pattern, FirstIndex(pattern, ":") + 1, Len(pattern))
    ELSE <<>>

\* run.py:116
pattern_parts(pattern) == split(pattern_cmd_part(pattern))

\* run.py:117 raises IndexError when the command part holds no word
matches_pattern_raises(pattern) == pattern_parts(pattern) = <<>>

\* run.py:117
pattern_cmd(pattern) == pattern_parts(pattern)[1]

\* run.py:118
pattern_required_args(pattern) ==
    IF Len(pattern_parts(pattern)) > 1
    THEN Join(<<" ">>, Tail(pattern_parts(pattern)))
    ELSE <<>>

\* matches_pattern without the exact comparison of run.py:134
matches_pattern_prefix_only(command_name, command_args, pattern) ==
    IF command_name # pattern_cmd(pattern) THEN FALSE
    ELSE IF pattern_required_args(pattern) # <<>>
    THEN StartsWith(command_args, pattern_required_args(pattern))
    ELSE IF pattern_args_wildcard(pattern) = <<>>
            \/ pattern_args_wildcard(pattern) = <<"*">> THEN TRUE
    ELSE command_args = pattern_args_wildcard(pattern)

\* run.py:120-142, for a pattern on which line 117 does not raise
matches_pattern(command_name, command_args, pattern) ==
    IF command_name # pattern_cmd(pattern) THEN FALSE
    ELSE IF pattern_required_args(pattern) # <<>> THEN
        IF ~StartsWith(command_args, pattern_required_args(pattern)) THEN FALSE
        ELSE IF pattern_args_wildcard(pattern) = <<"*">> THEN TRUE
        ELSE command_args = pattern_required_args(pattern)
    ELSE IF pattern_args_wildcard(pattern) = <<>>
            \/ pattern_args_wildcard(pattern) = <<"*">> THEN TRUE
    ELSE command_args = pattern_args_wildcard(pattern)

-----------------------------------------------------------------------------
(* Bounded inputs of matches_pattern.                                      *)

MaxPatLen == 5
MaxArgLen == 3

RECURSIVE SeqsUpTo(_, _)
SeqsUpTo(S, n) ==
    IF n = 0 THEN {<<>>}
    ELSE LET shorter == SeqsUpTo(S, n - 1)
         IN  shorter \cup {Append(s, c) : s \in shorter, c \in S}

PatternAlphabet == {"a", " ", ":", "*"}
ArgAlphabet == {"a", " "}
MatchNames == {<<"a">>, <<"a", "a">>}

InputsMatch ==
    /\ m_pattern \in SeqsUpTo(PatternAlphabet, MaxPatLen)
    /\ m_name \in MatchNames
    /\ m_args \in SeqsUpTo(ArgAlphabet, MaxArgLen)
    /\ m_pc = "call"
    /\ m_result = FALSE

\* a call of matches_pattern that returns
Match ==
    /\ m_pc = "call"
    /\ ~matches_pattern_raises(m_pattern)
    /\ m_result' = matches_pattern(m_name, m_args, m_pattern)
    /\ m_pc' = "returned"
    /\ UNCHANGED <<m_name, m_args, m_pattern>>

\* a call of matches_pattern that raises at run.py:117
MatchRaises ==
    /\ m_pc = "call"
    /\ matches_pattern_raises(m_pattern)
    /\ m_pc' = "raised"
    /\ UNCHANGED <<m_name, m_args, m_pattern, m_result>>

-----------------------------------------------------------------------------
(* The syntax tree, in the node shapes the parser hands to the visitor.    *)
(* A node is a record; hasattr(node, a) is  a \in DOMAIN node.             *)

Word(w)                == [kind |-> "word", word |-> w, parts |-> <<>>]
WordWith(w, ps)        == [kind |-> "word", word |-> w, parts |-> ps]
Parameter(v)           == [kind |-> "parameter", value |-> v]
CommandSubstitution(c) == [kind |-> "commandsubstitution", command |-> c]
ProcessSubstitution(c) == [kind |-> "processsubstitution", command |-> c]
Redirect(t, o)         == [kind |-> "redirect", type |-> t, output |-> o]
Operator(o)            == [kind |-> "operator", op |-> o]
Pipe                   == [kind |-> "pipe", pipe |-> <<"|">>]
ReservedWord(w)        == [kind |-> "reservedword", word |-> w]
Command(ps)            == [kind |-> "command", parts |-> ps]
List(ps)               == [kind |-> "list", parts |-> ps]
Pipeline(ps)           == [kind |-> "pipeline", parts |-> ps]
Compound(l, rs)        == [kind |-> "compound", list |-> l, redirects |-> rs]
\* the target of a descriptor duplication (2>&1) is a number, not a node
Descriptor(n)          == [fd |-> n]

hasattr(node, a) == a \in DOMAIN node

-----------------------------------------------------------------------------
(* CommandContext, run.py:145-155.                                         *)

CommandContext(name, parts, node) ==
    [name |-> name,
     parts |-> parts,
     node |-> node,
     args |-> IF Len(parts) > 1 THEN Join(<<" ">>, Tail(parts)) ELSE <<>>,
     full_command |-> Join(<<" ">>, parts)]

-----------------------------------------------------------------------------
(* BashASTVisitor, run.py:158-347.  Each visit method takes the visitor    *)
(* state and returns the state after the call.                             *)

\* __init__, run.py:171-185
BashASTVisitor ==
    [commands |-> <<>>,
     violations |-> <<>>,
     has_background |-> FALSE,
     has_var_expansion |-> FALSE,
     has_process_sub |-> FALSE,
     in_command_substitution |-> FALSE,
     in_redirect |-> FALSE]

RECURSIVE visit(_, _)
RECURSIVE visit_each(_, _)
RECURSIVE generic_visit(_, _)

\* the loop left after its first iteration
visit_first_only(v, nodes) ==
    IF nodes = <<>> THEN v ELSE visit(v, Head(nodes))

\* for x in nodes: self.visit(x)
visit_each(v, nodes) ==
    IF nodes = <<>> THEN v
    ELSE visit_each(visit(v, Head(nodes)), Tail(nodes))

\* run.py:199-211
generic_visit(v, node) ==
    LET v1 == IF hasattr(node, "parts") /\ node.parts # <<>>
              THEN visit_each(v, node.parts) ELSE v
        v2 == IF hasattr(node, "list") /\ node.list # <<>>
              THEN visit_each(v1, node.list) ELSE v1
    IN  IF hasattr(node, "command")
        THEN visit(v2, node.command) ELSE v2

\* run.py:226-229: the words of the parts that have one
RECURSIVE cmd_parts(_)
cmd_parts(ps) ==
    IF ps = <<>> THEN <<>>
    ELSE IF hasattr(Head(ps), "word")
         THEN <<Head(ps).word>> \o cmd_parts(Tail(ps))
         ELSE cmd_parts(Tail(ps))

\* run.py:213-234
visit_command(v, node) ==
    LET v1 == IF /\ hasattr(node, "parts") /\ node.parts # <<>>
                 /\ hasattr(node.parts[1], "word")
              THEN [v EXCEPT !.commands =
                        Append(@, CommandContext(node.parts[1].word,
                                                 cmd_parts(node.parts), node))]
              ELSE v
    IN  generic_visit(v1, node)

\* run.py:236-257
visit_redirect(v, node) ==
    LET old_in_redirect == v.in_redirect
        violation ==
            IF hasattr(node, "output") /\ hasattr(node.output, "word")
            THEN validate_text_for_dangerous_patterns(node.output.word,
                                                      "redirect target")
            ELSE None
        v1 == [v EXCEPT !.in_redirect = TRUE,
                        !.violations = IF violation # None
                                       THEN Append(@, violation) ELSE @]
        v2 == generic_visit(v1, node)
    IN  [v2 EXCEPT !.in_redirect = old_in_redirect]

\* run.py:259-271
visit_operator(v, node) ==
    LET op == IF hasattr(node, "op") THEN node.op ELSE None
        v1 == IF op = <<"&">> THEN [v EXCEPT !.has_background = TRUE] ELSE v
    IN  generic_visit(v1, node)

\* run.py:273-283
visit_parameter(v, node) ==
    generic_visit([v EXCEPT !.has_var_expansion = TRUE], node)

\* run.py:285-294
visit_processsubstitution(v, node) ==
    generic_visit([v EXCEPT !.has_process_sub = TRUE], node)

\* run.py:296-312
visit_commandsubstitution(v, node) ==
    LET old_in_subst == v.in_command_substitution
        v1 == [v EXCEPT !.in_command_substitution = TRUE]
        v2 == IF hasattr(node, "command") THEN visit(v1, node.command) ELSE v1
    IN  [v2 EXCEPT !.in_command_substitution = old_in_subst]

\* run.py:187-197; visit_word, visit_compound, visit_pipeline and visit_list
\* (run.py:314-347) are generic_visit
visit(v, node) ==
    LET kind == IF hasattr(node, "kind") THEN node.kind ELSE None
    IN  CASE kind = "command"             -> visit_command(v, node)
          [] kind = "redirect"            -> visit_redirect(v, node)
          [] kind = "operator"            -> visit_operator(v, node)
          [] kind = "parameter"           -> visit_parameter(v, node)
          [] kind = "processsubstitution" -> visit_processsubstitution(v, node)
          [] kind = "commandsubstitution" -> visit_commandsubstitution(v, node)
          [] OTHER                        -> generic_visit(v, node)

-----------------------------------------------------------------------------
(* check_command, run.py:350-454.                                          *)

\* run.py:369-375
DANGEROUS_EXEC_FLAGS ==
    { <<"-", "-", "c", "o", "m", "m", "a", "n", "d">>,
      <<"-", "e", "x", "e", "c">>,
      <<"-", "-", "e", "x", "e", "c">>,
      <<"-", "-", "e", "x", "e", "c", "u", "t", "e">>,
      <<"-", "-", "e", "v", "a", "l">> }

\* f"'{cmd_ctx.name}'"
Quoted(name) == "'" \o Str(name) \o "'"

\* run.py:399-402
text_violation(cmd_ctx) ==
    validate_text_for_dangerous_patterns(cmd_ctx.full_command,
                                         Quoted(cmd_ctx.name))

\* run.py:411-416: the first argument that is a dangerous flag, if any
dangerous_args(cmd_ctx) ==
    SelectSeq(Tail(cmd_ctx.parts), LAMBDA arg : arg \in DANGEROUS_EXEC_FLAGS)

flag_violation(cmd_ctx) ==
    IF dangerous_args(cmd_ctx) # <<>>
    THEN Quoted(cmd_ctx.name) \o " uses dangerous flag '"
            \o Str(Head(dangerous_args(cmd_ctx)))
            \o "' (enables arbitrary code execution)"
    ELSE None

\* the loop over APPROVED_PATTERNS with a matches_pattern that answers False
\* on a pattern without a command word instead of raising
RECURSIVE approval_skipping_malformed(_, _, _)
approval_skipping_malformed(name, args, patterns) ==
    IF patterns = <<>> THEN "not approved"
    ELSE IF /\ ~matches_pattern_raises(Head(patterns))
            /\ matches_pattern(name, args, Head(patterns)) THEN "approved"
    ELSE approval_skipping_malformed(name, args, Tail(patterns))

\* run.py:419-423: the loop over APPROVED_PATTERNS, which stops at the first
\* match and is left by the exception of a pattern without a command word
RECURSIVE approval(_, _, _)
approval(name, args, patterns) ==
    IF patterns = <<>> THEN "not approved"
    ELSE IF matches_pattern_raises(Head(patterns)) THEN "IndexError"
    ELSE IF matches_pattern(name, args, Head(patterns)) THEN "approved"
    ELSE approval(name, args, Tail(patterns))

\* run.py:425-426
approval_violation(cmd_ctx, patterns) ==
    IF approval(cmd_ctx.name, cmd_ctx.args, patterns) = "not approved"
    THEN Quoted(cmd_ctx.name) \o " not in approved list"
    ELSE None

AppendIf(seq, x) == IF x # None THEN Append(seq, x) ELSE seq

\* the iteration without the continue of run.py:405
check_one_without_continue(violations, cmd_ctx, patterns) ==
    AppendIf(AppendIf(AppendIf(violations, text_violation(cmd_ctx)),
                      flag_violation(cmd_ctx)),
             approval_violation(cmd_ctx, patterns))

\* run.py:397-426: one iteration of the loop, on the violation list
check_one(violations, cmd_ctx, patterns) ==
    IF text_violation(cmd_ctx) # None
    THEN Append(violations, text_violation(cmd_ctx))
    ELSE AppendIf(AppendIf(violations, flag_violation(cmd_ctx)),
                  approval_violation(cmd_ctx, patterns))

\* run.py:436
RECURSIVE numbered(_, _)
numbered(violations, i) ==
    IF i > Len(violations) THEN ""
    ELSE (IF i > 1 THEN " " ELSE "")
            \o ToString(i) \o ". " \o violations[i] \o "."
            \o numbered(violations, i + 1)

\* run.py:428-437
combine(violations) ==
    IF violations = <<>> THEN <<"allow", "">>
    ELSE IF Len(violations) = 1 THEN <<"ask", violations[1]>>
    ELSE <<"ask", "multiple issues: " \o numbered(violations, 1)>>

\* run.py:446: re.search(r'<<-?\s*["\'][A-Za-z_][A-Za-z0-9_]*["\']', command)
IsQuote(c) == c \in {"'", "\""}
Letters ==
    {"a", "b", "c", "d", "e", "f", "g", "h", "i", "j", "k", "l", "m", "n",
    "o", "p", "q", "r", "s", "t", "u", "v", "w", "x", "y", "z", "A", "B",
    "C", "D", "E", "F", "G", "H", "I", "J", "K", "L", "M", "N", "O", "P",
    "Q", "R", "S", "T", "U", "V", "W", "X", "Y", "Z"}
Digits == {"0", "1", "2", "3", "4", "5", "6", "7", "8", "9"}
IsIdentStart(c) == c \in Letters \cup {"_"}
IsIdentChar(c) == IsIdentStart(c) \/ c \in Digits

RECURSIVE SkipSpaces(_, _)
SkipSpaces(s, i) ==
    IF i <= Len(s) /\ IsSpace(s[i]) THEN SkipSpaces(s, i + 1) ELSE i

has_quoted_heredoc(text) ==
    \E i \in 1..Len(text) :
        /\ i + 1 <= Len(text) /\ text[i] = "<" /\ text[i + 1] = "<"
        /\ \E dash \in {0, 1} :
            /\ dash = 1 => (i + 2 <= Len(text) /\ text[i + 2] = "-")
            /\ LET q == SkipSpaces(text, i + 2 + dash)
               IN  /\ q + 1 <= Len(text)
                   /\ IsQuote(text[q])
                   /\ IsIdentStart(text[q + 1])
                   /\ \E e \in (q + 2)..Len(text) :
                        /\ IsQuote(text[e])
                        /\ \A k \in (q + 2)..(e - 1) : IsIdentChar(text[k])

here_document == <<"h", "e", "r", "e", "-", "d", "o", "c", "u", "m", "e", "n", "t">>
wanted == <<"w", "a", "n", "t", "e", "d">>

heredoc_guidance ==
    "heredoc with quoted delimiter detected (e.g., <<'EOF' or <<\"EOF\"). "
    \o "The bash parser cannot handle quoted heredoc delimiters. "
    \o "Please rewrite the command using an unquoted heredoc delimiter (e.g., <<EOF) instead. "
    \o "Note: Unquoted heredocs still prevent variable expansion when the content is properly quoted."

\* the except branch without the search of the command text (run.py:446)
on_exception_any_heredoc_error(error_msg, text) ==
    IF Contains(error_msg, here_document) /\ Contains(error_msg, wanted)
    THEN <<"deny", heredoc_guidance>>
    ELSE <<"ask", "failed to parse compound command: " \o Str(error_msg)>>

\* the except branch without the heredoc case (run.py:444-452)
on_exception_raw_error_only(error_msg, text) ==
    <<"ask", "failed to parse compound command: " \o Str(error_msg)>>

\* run.py:439-454
on_exception(error_msg, text) ==
    IF /\ Contains(error_msg, here_document) /\ Contains(error_msg, wanted)
       /\ has_quoted_heredoc(text)
    THEN <<"deny", heredoc_guidance>>
    ELSE <<"ask", "failed to parse compound command: " \o Str(error_msg)>>

bashlex_missing_reason ==
    "bashlex not available - cannot parse compound commands"
background_reason ==
    "contains backgrounded task (&). Background processes require permission."
var_expansion_reason ==
    "contains variable expansion ($VAR or ${VAR}). Variables could reference dangerous paths."
process_sub_reason ==
    "contains process substitution (<() or >()). Process substitution spawns parallel processes."

IndexError == <<"l", "i", "s", "t", " ", "i", "n", "d", "e", "x", " ",
                "o", "u", "t", " ", "o", "f", " ", "r", "a", "n", "g", "e">>

\* run.py:397-426: the whole loop; raised when matches_pattern raises in it
RECURSIVE check_each(_, _, _)
check_each(violations, commands, patterns) ==
    IF commands = <<>> THEN [raised |-> FALSE, violations |-> violations]
    ELSE IF /\ text_violation(Head(commands)) = None
            /\ approval(Head(commands).name, Head(commands).args, patterns)
                    = "IndexError"
         THEN [raised |-> TRUE, violations |-> violations]
         ELSE check_each(check_one(violations, Head(commands), patterns),
                         Tail(commands), patterns)

\* a visitor kept from one call to the next, as a module-level object would be
kept_visitor(previous) == previous

\* run.py:382: visitor = BashASTVisitor(), whatever an earlier call left
new_visitor(previous) == BashASTVisitor

\* run.py:350-454: check_command from its input to its return value, for an
\* input given as the parser's result on it
check_command(input, patterns, available) ==
    IF ~available THEN <<"ask", bashlex_missing_reason>>
    ELSE IF ~input.parsed THEN on_exception(input.error_msg, input.text)
    ELSE LET v == visit_each(BashASTVisitor, input.parts)
             r == check_each(v.violations, v.commands, patterns)
         IN  IF v.has_background THEN <<"ask", background_reason>>
             ELSE IF v.has_var_expansion THEN <<"ask", var_expansion_reason>>
             ELSE IF v.has_process_sub THEN <<"ask", process_sub_reason>>
             ELSE IF r.raised THEN on_exception(IndexError, <<>>)
             ELSE combine(r.violations)

-----------------------------------------------------------------------------
(* Inputs: the trees of command lines built as test.py builds its cases,   *)
(* from atoms and combinators, and the allowlists.                         *)

ls == <<"l", "s">>
rm == <<"r", "m">>
dash_la == <<"-", "l", "a">>
dash_rf == <<"-", "r", "f">>
dash_exec == <<"-", "e", "x", "e", "c">>
dot_git == <<".", "g", "i", "t">>
etc == <<"/", "e", "t", "c">>
cat == <<"c", "a", "t">>
etc_passwd == etc \o <<"/", "p", "a", "s", "s", "w", "d">>

RECURSIVE Words(_)
Words(ws) == IF ws = <<>> THEN <<>> ELSE <<Word(Head(ws))>> \o Words(Tail(ws))

\* test.py:536-597, the atoms: one simple command each
Atoms ==
    {Command(Words(ws)) :
        ws \in {<<ls>>, <<ls, dash_la>>, <<cat, etc_passwd>>, <<ls, dash_exec>>,
                <<rm>>, <<rm, dash_rf, dot_git>>}}
ChainAtoms == {Command(Words(<<ls, dash_la>>)), Command(Words(<<rm>>))}

\* the source text of a node, from which the parser takes the text of a
\* word that holds a substitution
RECURSIVE Unparse(_)
RECURSIVE UnparseEach(_)
UnparseEach(nodes) ==
    IF nodes = <<>> THEN <<>>
    ELSE <<Unparse(Head(nodes))>> \o UnparseEach(Tail(nodes))
Unparse(node) ==
    IF ~hasattr(node, "kind") THEN <<"1">>
    ELSE CASE node.kind \in {"word", "reservedword"} -> node.word
           [] node.kind = "redirect" -> node.type \o <<" ">> \o Unparse(node.output)
           [] node.kind = "operator" -> node.op
           [] node.kind = "pipe" -> node.pipe
           [] node.kind = "compound" ->
                Join(<<" ">>, UnparseEach(node.list \o node.redirects))
           [] OTHER -> Join(<<" ">>, UnparseEach(node.parts))

\* test.py:608-621, redirect targets: out, ../o
PlainTargets == {Word(<<"o">>), Word(<<".", ".", "/", "o">>)}
\* $F, as a word and as a redirect target
VarWord == WordWith(<<"$", "F">>, <<Parameter(<<"F">>)>>)
\* $(t) and <(t)
CommandSubstitutionWord(t) ==
    WordWith(<<"$", "(">> \o Unparse(t) \o <<")">>, <<CommandSubstitution(t)>>)
ProcessSubstitutionWord(t) ==
    WordWith(<<"<", "(">> \o Unparse(t) \o <<")">>, <<ProcessSubstitution(t)>>)

\* test.py:96-120, redirect_combinator: t > target, t > $F, t 2>&1, and the
\* redirect written first: > o t
redirect_combinator(t) ==
    IF t.kind # "command" THEN {}
    ELSE {Command(t.parts \o <<Redirect(<<">">>, tg)>>) :
                tg \in PlainTargets \cup {VarWord}}
         \cup {Command(t.parts \o <<Redirect(<<">", "&">>, Descriptor(1))>>),
               Command(<<Redirect(<<">">>, Word(<<"o">>))>> \o t.parts)}

\* test.py:189-206, variable_expansion_combinator: t $F
variable_expansion_combinator(t) ==
    IF t.kind # "command" THEN {} ELSE {Command(t.parts \o <<VarWord>>)}

\* test.py:123-142, command_substitution_combinator: ls $(t), ls > $(t)
command_substitution_combinator(t) ==
    {Command(<<Word(ls), CommandSubstitutionWord(t)>>),
     Command(<<Word(ls), Redirect(<<">">>, CommandSubstitutionWord(t))>>)}

\* test.py:145-166, process_substitution_combinator: ls <(t), ls < <(t)
process_substitution_combinator(t) ==
    {Command(<<Word(ls), ProcessSubstitutionWord(t)>>),
     Command(<<Word(ls), Redirect(<<"<">>, ProcessSubstitutionWord(t))>>)}

\* test.py:593-597, backgrounded: t &
background_combinator(t) ==
    IF t.kind = "list" /\ t.parts[Len(t.parts)].kind = "operator" THEN {}
    ELSE {List((IF t.kind = "list" THEN t.parts ELSE <<t>>)
               \o <<Operator(<<"&">>)>>)}

\* the parts of t as a list, and whether that list ends with its operator
ListParts(t) == IF t.kind = "list" THEN t.parts ELSE <<t>>
EndsWithOperator(ps) == ps[Len(ps)].kind = "operator"

\* a group with a redirect of its own: { t; } > target
group_combinator(t) ==
    {Compound(<<ReservedWord(<<"{">>),
                List(IF EndsWithOperator(ListParts(t)) THEN ListParts(t)
                     ELSE ListParts(t) \o <<Operator(<<";">>)>>),
                ReservedWord(<<"}">>)>>,
              <<Redirect(<<">">>, tg)>>) : tg \in {Word(<<".", ".", "/", "o">>)}}

\* test.py:57-74, command_chain_combinator: t op a and a ; t
ChainOps == {<<"&", "&">>, <<"|", "|">>, <<";">>}
command_chain_combinator(t) ==
    {List(ListParts(t) \o (IF EndsWithOperator(ListParts(t)) THEN <<a>>
                           ELSE <<Operator(o), a>>)) :
        o \in ChainOps, a \in ChainAtoms}
    \cup {List(<<a, Operator(<<";">>)>> \o ListParts(t)) : a \in ChainAtoms}

\* test.py:77-93, pipe_combinator: t | a
pipe_combinator(t) ==
    IF t.kind \notin {"command", "pipeline", "compound"} THEN {}
    ELSE {Pipeline((IF t.kind = "pipeline" THEN t.parts ELSE <<t>>) \o <<Pipe, a>>) :
            a \in ChainAtoms}

Combined(t) ==
    redirect_combinator(t) \cup variable_expansion_combinator(t)
    \cup command_substitution_combinator(t)
    \cup process_substitution_combinator(t)
    \cup background_combinator(t) \cup group_combinator(t)
    \cup command_chain_combinator(t) \cup pipe_combinator(t)

MaxDepth == 2

\* what the parser raises on the texts it cannot turn into a tree
heredoc_error ==
    <<"h", "e", "r", "e", "-", "d", "o", "c", "u", "m", "e", "n",
      "t", " ", "a", "t", " ", "l", "i", "n", "e", " ", "0", " ",
      "d", "e", "l", "i", "m", "i", "t", "e", "d", " ", "b", "y",
      " ", "e", "n", "d", "-", "o", "f", "-", "f", "i", "l", "e",
      " ", "(", "w", "a", "n", "t", "e", "d", " ", "'", "E", "O",
      "F", "'", ")">>
token_error ==
    <<"u", "n", "e", "x", "p", "e", "c", "t", "e", "d", " ", "t",
      "o", "k", "e", "n", " ", "'", ")", "'">>

\* the inputs of check_command: the parser's result on the command text
\* test.py:169-186, multiline_combinator: one tree per line
Multiline == {[parsed |-> TRUE, parts |-> <<a, b>>] : a, b \in ChainAtoms}
Unparsed ==
    {[parsed |-> FALSE, error_msg |-> heredoc_error,
      text |-> <<"l", "s", " ", "<", "<", "'", "E", "O", "F", "'">>],
     [parsed |-> FALSE, error_msg |-> heredoc_error,
      text |-> <<"l", "s", " ", "<", "<", "E", "O", "F">>],
     [parsed |-> FALSE, error_msg |-> token_error,
      text |-> <<"l", "s", " ", ")">>],
     [parsed |-> FALSE, error_msg |-> token_error,
      text |-> <<"l", "s", " ", ")", " ", "<", "<", "'", "E", "O", "F", "'">>]}

\* run.py:20-33: the patterns of approved-patterns.json, or the empty list
\* when the file cannot be opened, is not JSON, or has no 'patterns' entry
load_approved_patterns(file) ==
    IF file.kind # "json" THEN <<>>
    ELSE IF "patterns" \in DOMAIN file.data THEN file.data.patterns
    ELSE <<>>

UnreadableFile == [kind |-> "unreadable"]
MalformedFile == [kind |-> "malformed"]

\* approved-patterns.json as it may be found
PatternFiles ==
    {UnreadableFile, MalformedFile, [kind |-> "json", data |-> [note |-> "x"]]}
    \cup {[kind |-> "json", data |-> [patterns |-> ps]] :
            ps \in { <<ls \o <<":", "*">>, rm \o <<":", "*">>>>,
                     <<ls \o <<" ">> \o dash_la, ls>>,
                     <<ls \o <<":", "*">>, <<":", "*">>>> }}

\* run.py:37: the values APPROVED_PATTERNS may have
Allowlists == {load_approved_patterns(file) : file \in PatternFiles}

-----------------------------------------------------------------------------
(* check_command as a state machine.                                       *)

\* the parser's tree of one line: an atom under at most d combinators
RECURSIVE InitTree(_, _)
InitTree(t, d) ==
    IF d = 0 THEN command = [parsed |-> TRUE, parts |-> <<t>>]
    ELSE \E u \in Combined(t) \cup {t} : InitTree(u, d - 1)

Init ==
    /\ APPROVED_PATTERNS \in Allowlists
    /\ \/ BASHLEX_AVAILABLE = TRUE
          /\ \/ \E a \in Atoms : InitTree(a, MaxDepth)
             \/ command \in Multiline \cup Unparsed
       \/ BASHLEX_AVAILABLE = FALSE
          /\ command \in Multiline \cup Unparsed
    /\ pc = "start"
    /\ visitor = BashASTVisitor
    /\ idx = 0
    /\ result = <<None, None>>
    /\ m_name = <<>> /\ m_args = <<>> /\ m_pattern = <<>>
    /\ m_pc = "returned" /\ m_result = FALSE

\* run.py:362-363
BashlexMissing ==
    /\ pc = "start" /\ ~BASHLEX_AVAILABLE
    /\ result' = <<"ask", bashlex_missing_reason>>
    /\ pc' = "done"
    /\ UNCHANGED <<BASHLEX_AVAILABLE, APPROVED_PATTERNS, command, visitor, idx>>
    /\ UNCHANGED matchVars

\* run.py:379-384: the parse succeeds and the visitor walks every part
ParseAndVisit ==
    /\ pc = "start" /\ BASHLEX_AVAILABLE /\ command.parsed
    /\ visitor' = visit_each(new_visitor(visitor), command.parts)
    /\ pc' = "hazards"
    /\ UNCHANGED <<BASHLEX_AVAILABLE, APPROVED_PATTERNS, command, idx, result>>
    /\ UNCHANGED matchVars

\* run.py:379, 439-454: the parse raises
ParseFails ==
    /\ pc = "start" /\ BASHLEX_AVAILABLE /\ ~command.parsed
    /\ result' = on_exception(command.error_msg, command.text)
    /\ pc' = "done"
    /\ UNCHANGED <<BASHLEX_AVAILABLE, APPROVED_PATTERNS, command, visitor, idx>>
    /\ UNCHANGED matchVars

\* run.py:387-388
ReturnBackground ==
    /\ pc = "hazards" /\ visitor.has_background
    /\ result' = <<"ask", background_reason>>
    /\ pc' = "done"
    /\ UNCHANGED <<BASHLEX_AVAILABLE, APPROVED_PATTERNS, command, visitor, idx>>
    /\ UNCHANGED matchVars

\* the variable expansion test placed before the background test
ReturnVarExpansionFirst ==
    /\ pc = "hazards" /\ visitor.has_var_expansion
    /\ result' = <<"ask", var_expansion_reason>>
    /\ pc' = "done"
    /\ UNCHANGED <<BASHLEX_AVAILABLE, APPROVED_PATTERNS, command, visitor, idx>>
    /\ UNCHANGED matchVars

\* run.py:390-391
ReturnVarExpansion ==
    /\ pc = "hazards" /\ ~visitor.has_background /\ visitor.has_var_expansion
    /\ result' = <<"ask", var_expansion_reason>>
    /\ pc' = "done"
    /\ UNCHANGED <<BASHLEX_AVAILABLE, APPROVED_PATTERNS, command, visitor, idx>>
    /\ UNCHANGED matchVars

\* run.py:393-394
ReturnProcessSub ==
    /\ pc = "hazards" /\ ~visitor.has_background /\ ~visitor.has_var_expansion
    /\ visitor.has_process_sub
    /\ result' = <<"ask", process_sub_reason>>
    /\ pc' = "done"
    /\ UNCHANGED <<BASHLEX_AVAILABLE, APPROVED_PATTERNS, command, visitor, idx>>
    /\ UNCHANGED matchVars

\* run.py:397: no hazard flag is set, the loop over the commands starts
EnterLoop ==
    /\ pc = "hazards" /\ ~visitor.has_background /\ ~visitor.has_var_expansion
    /\ ~visitor.has_process_sub
    /\ pc' = "commands" /\ idx' = 1
    /\ UNCHANGED <<BASHLEX_AVAILABLE, APPROVED_PATTERNS, command, visitor, result>>
    /\ UNCHANGED matchVars

\* run.py:397-426: one iteration that completes
CheckCommand ==
    /\ pc = "commands" /\ idx <= Len(visitor.commands)
    /\ LET cmd_ctx == visitor.commands[idx]
       IN  /\ \/ text_violation(cmd_ctx) # None
              \/ approval(cmd_ctx.name, cmd_ctx.args, APPROVED_PATTERNS) # "IndexError"
           /\ visitor' = [visitor EXCEPT !.violations =
                            check_one(@, cmd_ctx, APPROVED_PATTERNS)]
    /\ idx' = idx + 1
    /\ UNCHANGED <<BASHLEX_AVAILABLE, APPROVED_PATTERNS, command, pc, result>>
    /\ UNCHANGED matchVars

\* run.py:421, 439-454: matches_pattern raises inside the loop
PatternRaises ==
    /\ pc = "commands" /\ idx <= Len(visitor.commands)
    /\ LET cmd_ctx == visitor.commands[idx]
       IN  /\ text_violation(cmd_ctx) = None
           /\ approval(cmd_ctx.name, cmd_ctx.args, APPROVED_PATTERNS) = "IndexError"
           /\ visitor' = [visitor EXCEPT !.violations =
                            AppendIf(@, flag_violation(cmd_ctx))]
    /\ result' = on_exception(IndexError, <<>>)
    /\ pc' = "done"
    /\ UNCHANGED <<BASHLEX_AVAILABLE, APPROVED_PATTERNS, command, idx>>
    /\ UNCHANGED matchVars

\* run.py:428-437
Combine ==
    /\ pc = "commands" /\ idx > Len(visitor.commands)
    /\ result' = combine(visitor.violations)
    /\ pc' = "done"
    /\ UNCHANGED <<BASHLEX_AVAILABLE, APPROVED_PATTERNS, command, visitor, idx>>
    /\ UNCHANGED matchVars

Next ==
    \/ BashlexMissing
    \/ ParseAndVisit
    \/ ParseFails
    \/ ReturnBackground
    \/ ReturnVarExpansion
    \/ ReturnProcessSub
    \/ EnterLoop
    \/ CheckCommand
    \/ PatternRaises
    \/ Combine

Spec == Init /\ [][Next]_vars

-----------------------------------------------------------------------------
(* check_command called again and again by one process, run.py:472: what   *)
(* a call leaves in visitor, idx and result is still there when the next   *)
(* call starts.                                                            *)

CallInputs ==
    {[parsed |-> TRUE, parts |-> <<t>>] :
        t \in {Command(Words(<<ls>>)),
               Command(Words(<<rm>>)),
               Command(Words(<<rm, dash_rf, dot_git>>)),
               Command(<<Word(ls), VarWord>>),
               Command(<<Word(ls), ProcessSubstitutionWord(Command(Words(<<ls>>)))>>),
               List(<<Command(Words(<<ls>>)), Operator(<<"&">>)>>),
               List(<<Command(Words(<<ls>>)), Operator(<<";">>),
                      Command(Words(<<rm>>))>>)}}
    \cup Unparsed

InitCalls ==
    /\ APPROVED_PATTERNS \in Allowlists
    /\ BASHLEX_AVAILABLE \in BOOLEAN
    /\ command \in CallInputs
    /\ pc = "start"
    /\ visitor = BashASTVisitor
    /\ idx = 0
    /\ result = <<None, None>>
    /\ m_name = <<>> /\ m_args = <<>> /\ m_pattern = <<>>
    /\ m_pc = "returned" /\ m_result = FALSE

\* run.py:472: the next call, on another command
NextCall ==
    /\ pc = "done"
    /\ command' \in CallInputs
    /\ pc' = "start"
    /\ UNCHANGED <<BASHLEX_AVAILABLE, APPROVED_PATTERNS, visitor, idx, result>>
    /\ UNCHANGED matchVars

NextCalls == Next \/ NextCall

SpecCalls == InitCalls /\ [][NextCalls]_vars

-----------------------------------------------------------------------------
(* validate_command, run.py:457-474: the null byte test, the call of       *)
(* check_command and the response.                                         *)

\* the character '\x00'
NUL == "NUL"

\* the test written for a null byte at the start of the text only
has_leading_null_byte(text) == text # <<>> /\ text[1] = NUL

\* run.py:463: '\x00' in command
has_null_byte(text) == Contains(text, <<NUL>>)

\* the text of an input: the one given, or the source text of its trees
command_text(c) ==
    IF hasattr(c, "text") THEN c.text
    ELSE Join(<<"\n">>, UnparseEach(c.parts))

\* test.py:599-603, control_chars: texts with a null byte, with what the
\* parser would make of them
NullByteInputs ==
    {[parsed |-> TRUE, parts |-> <<Command(Words(<<ls>>))>>,
      text |-> ls \o <<NUL>> \o rm],
     [parsed |-> TRUE, parts |-> <<Command(Words(<<rm>>))>>,
      text |-> rm \o <<" ", NUL>>],
     [parsed |-> FALSE, error_msg |-> heredoc_error,
      text |-> <<"l", "s", " ", "<", "<", "'", "E", "O", "F", "'", NUL>>]}

InitValidate ==
    /\ APPROVED_PATTERNS \in Allowlists
    /\ BASHLEX_AVAILABLE \in BOOLEAN
    /\ command \in CallInputs \cup NullByteInputs
    /\ pc = "validate"
    /\ visitor = BashASTVisitor
    /\ idx = 0
    /\ result = <<None, None>>
    /\ m_name = <<>> /\ m_args = <<>> /\ m_pattern = <<>>
    /\ m_pc = "returned" /\ m_result = FALSE

\* run.py:463-465: the text holds a null byte, the response is sent at once
NullByte ==
    /\ pc = "validate" /\ has_null_byte(command_text(command))
    /\ result' = <<"ask", "contains null byte">>
    /\ pc' = "sent"
    /\ UNCHANGED <<BASHLEX_AVAILABLE, APPROVED_PATTERNS, command, visitor, idx>>
    /\ UNCHANGED matchVars

\* run.py:472: check_command is called
CallCheckCommand ==
    /\ pc = "validate" /\ ~has_null_byte(command_text(command))
    /\ pc' = "start"
    /\ UNCHANGED <<BASHLEX_AVAILABLE, APPROVED_PATTERNS, command, visitor, idx,
                   result>>
    /\ UNCHANGED matchVars

\* run.py:473: the result of check_command is sent
SendDecision ==
    /\ pc = "done"
    /\ pc' = "sent"
    /\ UNCHANGED <<BASHLEX_AVAILABLE, APPROVED_PATTERNS, command, visitor, idx,
                   result>>
    /\ UNCHANGED matchVars

NextValidate == NullByte \/ CallCheckCommand \/ Next \/ SendDecision

SpecValidate == InitValidate /\ [][NextValidate]_vars

-----------------------------------------------------------------------------
(* matches_pattern alone, on bounded inputs.                               *)

InitMatch ==
    /\ InputsMatch
    /\ BASHLEX_AVAILABLE = TRUE
    /\ APPROVED_PATTERNS = <<>>
    /\ command = [parsed |-> TRUE, parts |-> <<>>]
    /\ pc = "done"
    /\ visitor = BashASTVisitor
    /\ idx = 0
    /\ result = <<None, None>>

NextMatch ==
    \/ Match /\ UNCHANGED checkVars
    \/ MatchRaises /\ UNCHANGED checkVars

SpecMatch == InitMatch /\ [][NextMatch]_vars

-----------------------------------------------------------------------------
(* The tree as the claims speak of it: every node reachable from the root, *)
(* through every field that holds nodes, in source order.                  *)

Children(node) ==
    (IF hasattr(node, "parts") THEN node.parts ELSE <<>>)
    \o (IF hasattr(node, "list") THEN node.list ELSE <<>>)
    \o (IF hasattr(node, "command") THEN <<node.command>> ELSE <<>>)
    \o (IF hasattr(node, "output") /\ hasattr(node.output, "kind")
        THEN <<node.output>> ELSE <<>>)
    \o (IF hasattr(node, "redirects") THEN node.redirects ELSE <<>>)

\* the nodes under a sequence of nodes, depth first, left to right
RECURSIVE NodesOf(_)
NodesOf(nodes) ==
    IF nodes = <<>> THEN <<>>
    ELSE <<Head(nodes)>> \o NodesOf(Children(Head(nodes))) \o NodesOf(Tail(nodes))

Returned == pc = "done" /\ BASHLEX_AVAILABLE /\ command.parsed
Traversed == pc \in {"hazards", "commands", "done"} /\ command.parsed

TreeNodes == NodesOf(command.parts)
HasNode(P(_)) == \E i \in 1..Len(TreeNodes) : P(TreeNodes[i])

IsCommandNode(n) == n.kind = "command"
IsParameterNode(n) == n.kind = "parameter"
IsProcessSubstitutionNode(n) == n.kind = "processsubstitution"
IsBackgroundOperator(n) == n.kind = "operator" /\ n.op = <<"&">>
IsParentDirRedirect(n) ==
    /\ n.kind = "redirect" /\ hasattr(n.output, "word")
    /\ Contains(n.output.word, <<".", ".">>)

\* a Command node as an invocation: its words, the first one the name
Invocation(n) == CommandContext(cmd_parts(n.parts)[1], cmd_parts(n.parts), n)

Matched(ctx) ==
    \E i \in 1..Len(APPROVED_PATTERNS) :
        /\ ~matches_pattern_raises(APPROVED_PATTERNS[i])
        /\ matches_pattern(ctx.name, ctx.args, APPROVED_PATTERNS[i])

PassesEveryCheck(n) ==
    cmd_parts(n.parts) # <<>> =>
        /\ text_violation(Invocation(n)) = None
        /\ dangerous_args(Invocation(n)) = <<>>
        /\ Matched(Invocation(n))

-----------------------------------------------------------------------------
(* C1: check_command returns 'allow' only if no hazard flag is set and     *)
(* every Command node of the tree, at any depth and whatever its first     *)
(* child, passes the text check, has no deny-set flag among its arguments  *)
(* and is matched by an allowlist pattern.                                 *)
C1_AllowOnlyIfEveryCommandPasses ==
    (Returned /\ result[1] = "allow") =>
        /\ ~visitor.has_background
        /\ ~visitor.has_var_expansion
        /\ ~visitor.has_process_sub
        /\ \A i \in 1..Len(TreeNodes) :
             IsCommandNode(TreeNodes[i]) => PassesEveryCheck(TreeNodes[i])

(* C2: an input whose tree holds a parameter-expansion node anywhere,      *)
(* the target word of a redirect included, is answered 'ask'.              *)
C2_ParameterExpansionAsks ==
    (Returned /\ HasNode(IsParameterNode)) => result[1] = "ask"

(* C3: an input whose tree holds a process-substitution node anywhere,     *)
(* the target word of a redirect included, is answered 'ask'.              *)
C3_ProcessSubstitutionAsks ==
    (Returned /\ HasNode(IsProcessSubstitutionNode)) => result[1] = "ask"

(* C4: an input whose tree holds a '&' operator node, wherever it occurs,  *)
(* is answered 'ask'.                                                      *)
C4_BackgroundAsks ==
    (Returned /\ HasNode(IsBackgroundOperator)) => result[1] = "ask"

(* C5: after the traversal the command list holds exactly one entry for    *)
(* each Command node of the tree, in depth-first, left-to-right order.     *)
C5_CommandListIsPreorder ==
    Traversed =>
        [i \in 1..Len(visitor.commands) |-> visitor.commands[i].node]
            = SelectSeq(TreeNodes, IsCommandNode)

\* a list or pipeline of commands joined by &&, ||, ; or |
IsJoin(n) ==
    /\ n.kind \in {"list", "pipeline"}
    /\ Len(n.parts) >= 3 /\ Len(n.parts) % 2 = 1
    /\ \A i \in 1..Len(n.parts) :
         i % 2 = 0 =>
            \/ n.parts[i].kind = "pipe"
            \/ n.parts[i].kind = "operator" /\ n.parts[i].op \in ChainOps

Alone(t) ==
    check_command([parsed |-> TRUE, parts |-> <<t>>], APPROVED_PATTERNS, TRUE)

JoinedInput == Returned /\ Len(command.parts) = 1 /\ IsJoin(command.parts[1])

(* C6: for commands joined by &&, ||, ; or |, the decision is 'allow' if   *)
(* and only if each joined command alone is decided 'allow'; otherwise it  *)
(* is 'ask'.                                                               *)
C6_JoinAllowedIffEachAllowed ==
    JoinedInput =>
        /\ result[1] \in {"allow", "ask"}
        /\ result[1] = "allow" <=>
             \A i \in 1..Len(command.parts[1].parts) :
                i % 2 = 1 => Alone(command.parts[1].parts[i])[1] = "allow"

\* an allowed command joined to one that is not
C6_Witness ==
    /\ JoinedInput /\ result[1] = "ask"
    /\ Alone(command.parts[1].parts[1])[1] = "allow"
    /\ Alone(command.parts[1].parts[3])[1] = "ask"

(* C9: an input in which some redirect's target word contains '..' is      *)
(* answered ('ask', 'redirect target accesses parent directory'),          *)
(* whatever else the input contains.                                       *)
C9_ParentDirRedirectAsks ==
    (Returned /\ HasNode(IsParentDirRedirect)) =>
        result = <<"ask", "redirect target accesses parent directory">>

\* the full text of a collected command fails the text safety check
TextCheckFails(cmd_ctx) ==
    \/ HasAbsolutePathMarker(cmd_ctx.full_command)
    \/ Contains(cmd_ctx.full_command, <<".", ".">>)
    \/ Contains(cmd_ctx.full_command, <<"~">>)
    \/ Contains(cmd_ctx.full_command, <<".", "g", "i", "t">>)

TextViolations(name) ==
    {Quoted(name) \o m : m \in {" uses absolute path",
                                " accesses parent directory",
                                " uses tilde expansion",
                                " accesses .git files"}}

(* C10: when the text check of a collected command fails, the iteration    *)
(* records exactly one violation, the text violation labelled with the     *)
(* quoted command name, and neither the flag check nor the allowlist check *)
(* adds another.                                                           *)
C10_TextViolationIsTheOnlyOne ==
    [][(/\ pc = "commands" /\ idx <= Len(visitor.commands)
        /\ TextCheckFails(visitor.commands[idx]))
       => /\ idx' = idx + 1
          /\ Len(visitor'.violations) = Len(visitor.violations) + 1
          /\ SubSeq(visitor'.violations, 1, Len(visitor.violations))
                = visitor.violations
          /\ visitor'.violations[Len(visitor'.violations)]
                \in TextViolations(visitor.commands[idx].name)]_vars

\* rm -rf .git under an allowlist that covers it
C10_Witness ==
    /\ Returned
    /\ command.parts = <<Command(Words(<<rm, dash_rf, dot_git>>))>>
    /\ Matched(Invocation(command.parts[1]))
    /\ result = <<"ask", "'rm' accesses .git files">>

-----------------------------------------------------------------------------
(* Patterns as the claims write them: a command word, then the required    *)
(* argument words separated by single spaces, then ':*' or nothing.        *)

IsCommandWord(w) ==
    w # <<>> /\ \A i \in 1..Len(w) : ~IsSpace(w[i]) /\ w[i] # ":"

IsRequiredPrefix(P) ==
    /\ P # <<>>
    /\ ~IsSpace(P[1]) /\ ~IsSpace(P[Len(P)])
    /\ \A i \in 1..Len(P) : P[i] # ":"
    /\ \A i \in 1..(Len(P) - 1) : ~(IsSpace(P[i]) /\ IsSpace(P[i + 1]))

\* pattern is  cmd, one space, P, suffix
IsPatternOf(pattern, cmd, P, suffix) == pattern = cmd \o <<" ">> \o P \o suffix

Splits(pattern) ==
    {<<SubSeq(pattern, 1, i - 1), SubSeq(pattern, i + 1, j)>> :
        i \in 1..Len(pattern), j \in 1..Len(pattern)}

(* C7: for a pattern with a required-argument prefix P, without ':*' the   *)
(* match holds iff the name equals the pattern command and the arguments   *)
(* equal P; with ':*' it holds iff the name equals the pattern command and *)
(* the arguments start with P.                                             *)
C7_RequiredPrefixMatch ==
    m_pc = "returned" =>
        \A sp \in Splits(m_pattern) :
            (IsCommandWord(sp[1]) /\ IsRequiredPrefix(sp[2])) =>
                /\ IsPatternOf(m_pattern, sp[1], sp[2], <<>>) =>
                     (m_result <=> (m_name = sp[1] /\ m_args = sp[2]))
                /\ IsPatternOf(m_pattern, sp[1], sp[2], <<":", "*">>) =>
                     (m_result <=> (m_name = sp[1] /\ StartsWith(m_args, sp[2])))

\* 'a a:*' accepts the arguments 'a a', which go on after the prefix 'a'
C7_Witness ==
    /\ m_pc = "returned"
    /\ m_name = <<"a">> /\ m_args = <<"a", " ", "a">>
    /\ m_pattern = <<"a", " ", "a", ":", "*">> /\ m_result

(* C8: a bare-command pattern, one command word and nothing else, matches  *)
(* a command only when the name equals the word and the argument string is *)
(* empty.                                                                  *)
C8_BarePatternRefusesArguments ==
    (m_pc = "returned" /\ IsCommandWord(m_pattern)) =>
        (m_result <=> (m_name = m_pattern /\ m_args = <<>>))

-----------------------------------------------------------------------------
\* the input 'cat /etc/passwd' under an allowlist that does not cover it
CatEtcPasswd ==
    /\ Returned
    /\ command.parts = <<Command(Words(<<cat, etc_passwd>>))>>
    /\ ~Matched(Invocation(command.parts[1]))

(* C11 (as stated): 'cat /etc/passwd' with no pattern covering it is       *)
(* answered 'ask' with a combined message that notes both the absolute     *)
(* path violation and the not-in-approved-list violation for 'cat'.        *)
C11_CombinedMessage ==
    CatEtcPasswd =>
        /\ \E i \in 1..Len(visitor.violations) :
             visitor.violations[i] = "'cat' uses absolute path"
        /\ \E i \in 1..Len(visitor.violations) :
             visitor.violations[i] = "'cat' not in approved list"
        /\ result = <<"ask", "multiple issues: "
                                \o numbered(visitor.violations, 1)>>

(* C11 (amended): 'cat /etc/passwd' with no pattern covering it is         *)
(* answered 'ask' with the absolute path violation alone; the allowlist    *)
(* check is skipped for a command whose text check fails.                  *)
C11_AbsolutePathMessageOnly ==
    CatEtcPasswd => result = <<"ask", "'cat' uses absolute path">>

C11_Witness ==
    /\ CatEtcPasswd /\ APPROVED_PATTERNS = <<>>
    /\ visitor.violations = <<"'cat' uses absolute path">>
    /\ result[1] = "ask"

-----------------------------------------------------------------------------
\* the parser raised on the input
ParserFailed == pc = "done" /\ BASHLEX_AVAILABLE /\ ~command.parsed
\* the failure text is that of a here-document error
HeredocFailure ==
    /\ Contains(command.error_msg, here_document)
    /\ Contains(command.error_msg, wanted)

(* C12: check_command returns 'deny' only when processing failed with a    *)
(* here-document error and the command text holds a heredoc operator       *)
(* followed by a quoted identifier; nothing else produces 'deny'.          *)
C12_DenyOnlyForQuotedHeredoc ==
    (pc = "done" /\ result[1] = "deny") =>
        /\ ParserFailed
        /\ HeredocFailure
        /\ has_quoted_heredoc(command.text)

C12_Witness == ParserFailed /\ HeredocFailure /\ result[1] = "deny"

(* C13 (as stated): an input the parser cannot turn into a tree and that   *)
(* holds a heredoc with a quoted delimiter is answered 'deny' with the     *)
(* unquoted-delimiter guidance, whatever failure the parser reported.      *)
C13_QuotedHeredocDeniedWhateverTheFailure ==
    (ParserFailed /\ has_quoted_heredoc(command.text)) =>
        result = <<"deny", heredoc_guidance>>

(* C13 (amended): an input the parser cannot turn into a tree because of a *)
(* here-document error, and that holds a heredoc with a quoted delimiter,  *)
(* is answered 'deny' with the unquoted-delimiter guidance.                *)
C13_QuotedHeredocDeniedOnHeredocFailure ==
    (ParserFailed /\ HeredocFailure /\ has_quoted_heredoc(command.text)) =>
        result = <<"deny", heredoc_guidance>>

\* ls <<'EOF'
C13_Witness ==
    /\ ParserFailed
    /\ command.text = <<"l", "s", " ", "<", "<", "'", "E", "O", "F", "'">>
    /\ result = <<"deny", heredoc_guidance>>

-----------------------------------------------------------------------------
\* the parser raises on the input, and it is not the quoted-heredoc case
ParseRaises ==
    /\ pc = "start" /\ BASHLEX_AVAILABLE /\ ~command.parsed
    /\ ~(HeredocFailure /\ has_quoted_heredoc(command.text))

\* matching the command against the allowlist reaches a pattern without a
\* command word before any pattern matches
MatchingRaises ==
    /\ pc = "commands" /\ idx <= Len(visitor.commands)
    /\ text_violation(visitor.commands[idx]) = None
    /\ \E i \in 1..Len(APPROVED_PATTERNS) :
          /\ split(pattern_cmd_part(APPROVED_PATTERNS[i])) = <<>>
          /\ \A j \in 1..(i - 1) :
                /\ split(pattern_cmd_part(APPROVED_PATTERNS[j])) # <<>>
                /\ ~matches_pattern(visitor.commands[idx].name,
                                    visitor.commands[idx].args,
                                    APPROVED_PATTERNS[j])

(* C14: a failure while parsing the input or while matching a malformed    *)
(* allowlist pattern, other than the quoted-heredoc case, ends the call    *)
(* with ('ask', 'failed to parse compound command: <raw error text>');     *)
(* no failure ends it with 'allow'.                                        *)
C14_FailureAsksWithRawError ==
    [][/\ ParseRaises =>
            /\ pc' = "done"
            /\ result' = <<"ask", "failed to parse compound command: "
                                    \o Str(command.error_msg)>>
       /\ MatchingRaises =>
            /\ pc' = "done"
            /\ result' = <<"ask", "failed to parse compound command: "
                                    \o "list index out of range">>]_vars

\* ls under an allowlist whose first pattern has no command word
C14_Witness ==
    /\ pc = "done" /\ BASHLEX_AVAILABLE /\ command.parsed
    /\ ~visitor.has_background /\ ~visitor.has_var_expansion
    /\ ~visitor.has_process_sub
    /\ idx <= Len(visitor.commands)
    /\ result = <<"ask", "failed to parse compound command: "
                            \o "list index out of range">>

-----------------------------------------------------------------------------
(* C15: the pair a call returns depends on the command and the allowlist   *)
(* alone: whatever calls came before and whatever they left behind, it is  *)
(* the pair that a first call on that command returns.                     *)
C15_SameInputSameResult ==
    pc = "done" =>
        result = check_command(command, APPROVED_PATTERNS, BASHLEX_AVAILABLE)

\* 'ls &' answered by a call that follows a call on 'ls ; rm': idx is what
\* the earlier call left, the visitor holds what this call collected
C15_Witness ==
    /\ pc = "done" /\ idx = 3 /\ command.parsed
    /\ command.parts = <<List(<<Command(Words(<<ls>>)), Operator(<<"&">>)>>)>>
    /\ visitor.has_background
    /\ visitor.violations = <<>> /\ Len(visitor.commands) = 1
    /\ result = <<"ask", background_reason>>

-----------------------------------------------------------------------------
\* the response validate_command sends for the result (run.py:472-473)
Response == send_permission_response(result[1], result[2], command)

(* C16: every result has a decision among allow, ask and deny; the reason  *)
(* is the empty string exactly when the decision is 'allow'; and the       *)
(* response carries permissionDecisionReason exactly when the decision is  *)
(* not 'allow'.                                                            *)
C16_ReasonIffNotAllow ==
    pc = "done" =>
        /\ result[1] \in {"allow", "ask", "deny"}
        /\ result[2] = "" <=> result[1] = "allow"
        /\ Response.hookSpecificOutput.permissionDecision = result[1]
        /\ "permissionDecisionReason" \in DOMAIN Response.hookSpecificOutput
                <=> result[1] # "allow"

\* an allowed command: empty reason, and none in the response
C16_Witness ==
    /\ pc = "done" /\ result = <<"allow", "">>
    /\ DOMAIN Response.hookSpecificOutput
            = {"hookEventName", "permissionDecision"}

-----------------------------------------------------------------------------
(* C17: with the allowlist source unreadable or malformed the allowlist is *)
(* empty, and with an empty allowlist every input that invokes a command   *)
(* is answered 'ask', never 'allow'.                                       *)
C17_EmptyAllowlistAsks ==
    /\ load_approved_patterns(UnreadableFile) = <<>>
    /\ load_approved_patterns(MalformedFile) = <<>>
    /\ (/\ Returned
        /\ APPROVED_PATTERNS = load_approved_patterns(UnreadableFile)
        /\ HasNode(IsCommandNode)) => result[1] = "ask"

-----------------------------------------------------------------------------
\* the lists that hold the patterns of ps in another order
Reorderings(ps) ==
    {[i \in 1..Len(ps) |-> ps[f[i]]] :
        f \in {g \in [1..Len(ps) -> 1..Len(ps)] :
                \A a, b \in 1..Len(ps) : a # b => g[a] # g[b]}}

(* C18: under an allowlist that holds the same patterns in another order   *)
(* check_command returns the same decision and the same reason.            *)
C18_PatternOrderIrrelevant ==
    pc = "done" =>
        \A patterns \in Reorderings(APPROVED_PATTERNS) :
            check_command(command, patterns, BASHLEX_AVAILABLE) = result

-----------------------------------------------------------------------------
\* a Command node whose text passes the text check and one of whose
\* argument words is a deny-set flag
HasDangerousFlag(n) ==
    /\ IsCommandNode(n) /\ cmd_parts(n.parts) # <<>>
    /\ text_violation(Invocation(n)) = None
    /\ \E k \in 2..Len(cmd_parts(n.parts)) :
          cmd_parts(n.parts)[k] \in DANGEROUS_EXEC_FLAGS

\* no hazard flag ended the call and the loop over the commands ran through
LoopCompleted ==
    /\ ~visitor.has_background /\ ~visitor.has_var_expansion
    /\ ~visitor.has_process_sub
    /\ idx > Len(visitor.commands)

(* C19: an input with a command that passes the text check and has an      *)
(* argument word equal to a deny-set flag is answered 'ask', even when an  *)
(* allowlist pattern matches the command, and once the loop over the       *)
(* commands has run through, a "uses dangerous flag" violation is recorded *)
(* for that command.                                                       *)
C19_DangerousFlagAsks ==
    Returned =>
        \A i \in 1..Len(TreeNodes) :
            HasDangerousFlag(TreeNodes[i]) =>
                /\ result[1] = "ask"
                /\ LoopCompleted =>
                     \E j \in 1..Len(visitor.violations) :
                        visitor.violations[j]
                            = flag_violation(Invocation(TreeNodes[i]))

-----------------------------------------------------------------------------
\* the input is  ls $(C)  and a pattern matches the outer command
SubstitutionInput ==
    /\ Returned /\ Len(command.parts) = 1
    /\ command.parts[1].kind = "command"
    /\ Len(command.parts[1].parts) = 2
    /\ command.parts[1].parts[1] = Word(ls)
    /\ command.parts[1].parts[2].kind = "word"
    /\ Len(command.parts[1].parts[2].parts) = 1
    /\ command.parts[1].parts[2].parts[1].kind = "commandsubstitution"
    /\ Matched(Invocation(command.parts[1]))

\* the command C inside the substitution, and the traversal of C alone
Inner == command.parts[1].parts[2].parts[1].command
InnerAlone == visit(BashASTVisitor, Inner)

(* C20: for an allowlisted outer command whose argument is $(C), the       *)
(* substitution sets no hazard flag of its own, the commands of C follow   *)
(* the outer command in the command list, and the decision is 'allow' if   *)
(* and only if C alone is allowed, and 'ask' otherwise, in particular when *)
(* C uses an absolute path or is not allowlisted.                          *)
C20_SubstitutionJudgedByInner ==
    SubstitutionInput =>
        /\ visitor.has_background = InnerAlone.has_background
        /\ visitor.has_var_expansion = InnerAlone.has_var_expansion
        /\ visitor.has_process_sub = InnerAlone.has_process_sub
        /\ visitor.commands
              = <<Invocation(command.parts[1])>> \o InnerAlone.commands
        /\ result[1] \in {"allow", "ask"}
        /\ result[1] = "allow" <=> Alone(Inner)[1] = "allow"
        /\ (IsCommandNode(Inner) /\ ~PassesEveryCheck(Inner))
                => result[1] = "ask"

-----------------------------------------------------------------------------
(* C21: a command text that holds a null byte is answered ('ask',          *)
(* 'contains null byte') before any parsing: check_command is never        *)
(* entered for it, so the answer is never 'allow' and never 'deny',        *)
(* whatever else the text holds.                                           *)
C21_NullByteAsksBeforeParsing ==
    Contains(command_text(command), <<NUL>>) =>
        /\ pc \in {"validate", "sent"}
        /\ pc = "sent" => result = <<"ask", "contains null byte">>

\* a text with a quoted heredoc delimiter and a null byte
C21_Witness ==
    /\ pc = "sent" /\ BASHLEX_AVAILABLE /\ ~command.parsed
    /\ has_quoted_heredoc(command.text)
    /\ Contains(command.text, <<NUL>>)
    /\ result = <<"ask", "contains null byte">>

-----------------------------------------------------------------------------
(* C22: on a parsed input the reason follows a fixed priority: the         *)
(* background flag, then the variable expansion flag, then the process     *)
(* substitution flag, then what the per-command checks give.  With several *)
(* hazards only the first one's reason is returned, and with any hazard    *)
(* flag set the reason holds no violation text.                            *)
C22_HazardPriority ==
    Returned =>
        /\ visitor.has_background => result = <<"ask", background_reason>>
        /\ (~visitor.has_background /\ visitor.has_var_expansion)
                => result = <<"ask", var_expansion_reason>>
        /\ (/\ ~visitor.has_background /\ ~visitor.has_var_expansion
            /\ visitor.has_process_sub)
                => result = <<"ask", process_sub_reason>>
        /\ (/\ ~visitor.has_background /\ ~visitor.has_var_expansion
            /\ ~visitor.has_process_sub)
                => result[2] \notin {background_reason, var_expansion_reason,
                                     process_sub_reason}

\* a backgrounded command with a variable expansion
C22_Witness ==
    /\ Returned
    /\ visitor.has_background /\ visitor.has_var_expansion
    /\ result = <<"ask", background_reason>>

-----------------------------------------------------------------------------
(* C23: the per-command checks form an else-chain: one iteration of the    *)
(* loop records at most one violation, and for a command with a deny-set   *)
(* flag that passes the text check it is the dangerous flag violation.     *)
C23_AtMostOneViolationPerCommand ==
    [][(pc = "commands" /\ idx <= Len(visitor.commands)) =>
          /\ Len(visitor'.violations) <= Len(visitor.violations) + 1
          /\ (/\ text_violation(visitor.commands[idx]) = None
              /\ dangerous_args(visitor.commands[idx]) # <<>>)
                => visitor'.violations
                     = Append(visitor.violations,
                              flag_violation(visitor.commands[idx]))]_vars

-----------------------------------------------------------------------------
\* a redirect whose target is a word node
HasTargetWord(n) == n.kind = "redirect" /\ hasattr(n.output, "kind")

\* the target word of a redirect and everything below it
TargetNodes(n) == NodesOf(<<n.output>>)

\* the visitor holds an entry for the Command node n
Collected(n) ==
    \E j \in 1..Len(visitor.commands) : visitor.commands[j].node = n

(* C24: the traversal visits the nodes inside a redirect: for every node   *)
(* below a redirect's target word, a parameter expansion sets the variable *)
(* expansion flag, a process substitution sets the process substitution    *)
(* flag, and a command that starts with a word is in the command list.     *)
C24_RedirectTargetsVisited ==
    Traversed =>
        \A i \in 1..Len(TreeNodes) :
            HasTargetWord(TreeNodes[i]) =>
                \A k \in 1..Len(TargetNodes(TreeNodes[i])) :
                    LET n == TargetNodes(TreeNodes[i])[k]
                    IN  /\ IsParameterNode(n) => visitor.has_var_expansion
                        /\ IsProcessSubstitutionNode(n)
                                => visitor.has_process_sub
                        /\ (IsCommandNode(n) /\ hasattr(n.parts[1], "word"))
                                => Collected(n)

-----------------------------------------------------------------------------
\* the violations visit_redirect records
RedirectViolations ==
    {"redirect target uses absolute path",
     "redirect target accesses parent directory",
     "redirect target uses tilde expansion",
     "redirect target accesses .git files"}

\* the violations of the commands of a list, command after command
RECURSIVE PerCommandViolations(_)
PerCommandViolations(commands) ==
    IF commands = <<>> THEN <<>>
    ELSE check_one(<<>>, Head(commands), APPROVED_PATTERNS)
            \o PerCommandViolations(Tail(commands))

NoHazardFlag ==
    /\ ~visitor.has_background /\ ~visitor.has_var_expansion
    /\ ~visitor.has_process_sub

(* C25: with no hazard flag set the result is given by the violation       *)
(* sequence alone: none gives ('allow', ''), one gives 'ask' with its text *)
(* unchanged, several give 'ask' with 'multiple issues: ' and the          *)
(* violations numbered from 1; and the sequence holds the redirect target  *)
(* violations first, then the violations of the commands in command-list   *)
(* order.                                                                  *)
C25_ResultFromViolationSequence ==
    (Returned /\ NoHazardFlag) =>
        /\ visitor.violations = <<>> => result = <<"allow", "">>
        /\ Len(visitor.violations) = 1
                => result = <<"ask", visitor.violations[1]>>
        /\ Len(visitor.violations) > 1
                => result = <<"ask", "multiple issues: "
                                        \o numbered(visitor.violations, 1)>>
        /\ \E k \in 0..Len(visitor.violations) :
              /\ \A i \in 1..k : visitor.violations[i] \in RedirectViolations
              /\ SubSeq(visitor.violations, k + 1, Len(visitor.violations))
                    = PerCommandViolations(visitor.commands)

====
